---- MODULE Spec2Model ----
(***************************************************************************)
(* The real-time fan-out of the chat server: the socket.io connection      *)
(* handler (io.on('connection') with its 'setup', 'join chat',             *)
(* 'new message' and 'disconnect' handlers).  A socket is a connection, a  *)
(* socket.io room is a room, and the events the server emits to a socket   *)
(* are that connection's outbound queue.                                   *)
(*                                                                         *)
(* Node runs each handler to completion on one thread, so every handler is *)
(* one atomic action.  The payload of an event is whatever the client      *)
(* sent: the handlers check nothing but what their code checks.            *)
(***************************************************************************)
EXTENDS Naturals, Sequences, FiniteSets

\* ---------------------------------------------------------------- bounds

\* Socket ids in the order the server hands them out (socket.id is fresh for
\* every socket; which name comes first is immaterial).
ConnOrder == <<"c1", "c2", "c3">>
Conn == {ConnOrder[i] : i \in DOMAIN ConnOrder}

\* User ids (userData._id, user._id, sender._id).
Users == {"u1", "u2"}

\* Chat ids (chat._id, the room of 'join chat').
Chats == {"chatA"}

\* 'new message' events the server handles in one run.
MaxSends == 2

\* 'setup' events the server handles in one run.
MaxSetups == 3

\* Longest chat.users array of a message.
MaxChatUsers == 2

\* accessChat requests in one run.
Requests == {"r1", "r2", "r3"}

\* The chats a SingleChat component can have open.
ChatIds == {"chatA", "chatB"}

\* Messages saved in one run of a SingleChat component.
MaxMsgs == 2

\* Socket events a SingleChat component emits in one run.
MaxEmitted == 4

\* Message listeners counted on one socket.
MaxListeners == 3

\* Timers of typingHandler pending at one time.
MaxTimers == 2

\* Error toasts shown in one run.
MaxToasts == 2

\* ---------------------------------------------------------------- state

\* Room names are plain strings: personal rooms (a user id) and chat rooms
\* (a chat id) share one namespace.
RoomIds == Users \cup Chats

VARIABLES
    status,     \* status[c]: "idle" (id not handed out), "live", "closed"
    rooms,      \* rooms[c]: the rooms socket c is in (socket.rooms)
    queue,      \* queue[c]: the events emitted to socket c, oldest first
    nsent,      \* 'new message' events handled so far
    seen,       \* seen[c]: how many events of queue[c] the client of c has dispatched
    heard,      \* heard[c]: the runs of the client's message listener, oldest first
    selectedChatCompare,    \* selectedChatCompare[c]: the chat open in the client of c
    chatdb,     \* the chats collection, in the order the chats were created
    areq,       \* areq[r]: how far the accessChat request r has got
    build,      \* the side of SingleChat.js that is built; "none" before it mounts
    selectedChat,   \* the chat selected (ChatState), "none" for none
    messages,   \* the message list shown
    loading,    \* the spinner flag
    listeners,  \* the message listeners registered on the socket
    fetches,    \* the chats whose GET /api/message/:id is in flight
    posts,      \* the POST /api/message requests in flight
    db,         \* db[ch]: the messages saved for chat ch
    emitted,    \* the socket events the client has emitted
    toasts,     \* the error toasts shown so far
    newMessage, \* the input holds text
    typing,     \* the typing flag
    socketConnected,    \* 'connected' has arrived
    timers      \* the timers of typingHandler that have not fired

\* The state of the clients (SingleChat.js), one client per socket.
cvars == <<seen, heard, selectedChatCompare>>

\* The state of the chat controllers.
avars == <<chatdb, areq>>

\* The state of one SingleChat component, the one of socket Me, with the
\* message store behind it.
uvars == <<build, selectedChat, messages, loading, listeners, fetches, posts,
           db, emitted, toasts, newMessage>>

\* The state of its typing indicator.
tvars == <<typing, socketConnected, timers>>

vars == <<status, rooms, queue, nsent, seen, heard, selectedChatCompare,
          chatdb, areq, build, selectedChat, messages, loading, listeners,
          fetches, posts, db, emitted, toasts, newMessage, typing,
          socketConnected, timers>>

\* chat.users arrays: duplicates are possible (createGroupChat pushes the
\* creator onto the list it was sent without looking for him in it).
UserSeqs == UNION {[1..n -> Users] : n \in 0..MaxChatUsers}

\* The payloads of 'new message': the populated message the client got back
\* from POST /api/message and emits as is.
MessageData == [chat : Chats, users : UserSeqs, sender : Users]

\* socket.emit('connected')
ConnectedEvent(c) ==
    [type |-> "connected", id |-> 0, chat |-> "none", sender |-> "none",
     from |-> c, room |-> "none"]

\* socket.to(room).emit('message received', messageData).  id is the message's
\* rank among the messages the server has handled, from the socket that sent
\* it and room the room the emit addressed: these three are history fields,
\* the wire carries messageData only.
MessageEvent(c, md, n, room) ==
    [type |-> "message received", id |-> n, chat |-> md.chat,
     sender |-> md.sender, from |-> c, room |-> room]

Live == {c \in Conn : status[c] = "live"}

\* The members of a room: the sockets whose room set holds it.
membersOf(r) == {c \in Conn : r \in rooms[c]}

\* How many 'connected' events socket c has been sent: its 'setup' events.
SetupCount(c) == Cardinality({i \in DOMAIN queue[c] : queue[c][i].type = "connected"})

\* The 'setup' events handled so far.
RECURSIVE SumSetups(_)
SumSetups(S) ==
    IF S = {} THEN 0
    ELSE LET c == CHOOSE x \in S : TRUE IN SetupCount(c) + SumSetups(S \ {c})
TotalSetups == SumSetups(Conn)

\* Socket c has set up: it has joined a personal room.
HasSetUp(c) == SetupCount(c) > 0

\* The place of a socket id in the order the ids are handed out.
Rank(c) == CHOOSE i \in DOMAIN ConnOrder : ConnOrder[i] = c

Init ==
    /\ status = [c \in Conn |-> "idle"]
    /\ rooms = [c \in Conn |-> {}]
    /\ queue = [c \in Conn |-> <<>>]
    /\ nsent = 0
    /\ seen = [c \in Conn |-> 0]
    /\ heard = [c \in Conn |-> <<>>]
    /\ selectedChatCompare = [c \in Conn |-> "none"]
    /\ chatdb = <<>>
    /\ areq = [r \in Requests |-> [pc |-> "idle", me |-> "none", other |-> "none"]]
    /\ build = "none"
    /\ selectedChat = "none"
    /\ messages = <<>>
    /\ loading = FALSE
    /\ listeners = [n |-> 0, snap |-> <<>>, dep |-> "none"]
    /\ fetches = {}
    /\ posts = {}
    /\ db = [ch \in ChatIds |-> <<>>]
    /\ emitted = <<>>
    /\ toasts = [send |-> 0, load |-> 0]
    /\ newMessage = FALSE
    /\ typing = FALSE
    /\ socketConnected = FALSE
    /\ timers = <<>>

\* ---------------------------------------------------------------- handlers

\* io.on('connection', (socket) => ...): a new socket, in no room.
Connection(c) ==
    /\ status[c] = "idle"
    /\ \A d \in Conn : Rank(d) < Rank(c) => status[d] # "idle"
    /\ status' = [status EXCEPT ![c] = "live"]
    /\ UNCHANGED <<rooms, queue, nsent, cvars, avars, uvars, tvars>>

\* A join that toggles: joining a room the socket is in takes it out.
SocketJoinToggle(c, room) ==
    [rooms EXCEPT ![c] = IF room \in @ THEN @ \ {room} ELSE @ \cup {room}]

\* socket.join(room): rooms are sets, joining twice is joining once.
SocketJoin(c, room) == [rooms EXCEPT ![c] = @ \cup {room}]

\* socket.on('setup', userData): join the personal room, answer 'connected'.
Setup(c, userId) ==
    /\ status[c] = "live"
    /\ TotalSetups < MaxSetups
    /\ rooms' = SocketJoin(c, userId)
    /\ queue' = [queue EXCEPT ![c] = Append(@, ConnectedEvent(c))]
    /\ UNCHANGED <<status, nsent, cvars, avars, uvars, tvars>>

\* A 'join chat' that tells the room: every socket in the room after the join
\* is sent a 'member-joined' event.
JoinChatAnnounced(c, room) ==
    /\ status[c] = "live"
    /\ rooms' = SocketJoin(c, room)
    /\ queue' = [s \in Conn |->
                    IF s = c \/ room \in rooms[s]
                    THEN Append(queue[s], [type |-> "member-joined", id |-> 0,
                                           chat |-> room, sender |-> "none",
                                           from |-> c, room |-> room])
                    ELSE queue[s]]
    /\ UNCHANGED <<status, nsent, cvars, avars, uvars, tvars>>

\* socket.on('join chat', room): join the room.
JoinChat(c, room) ==
    /\ status[c] = "live"
    /\ rooms' = SocketJoin(c, room)
    /\ UNCHANGED <<status, queue, nsent, cvars, avars, uvars, tvars>>

\* io.to(room).emit(...) in its place: the emitting socket is not left out.
ReachedWithSender(s, c, room) == room \in rooms[s]

\* socket.broadcast.emit(...) in its place: every other socket, in the room
\* or not.
ReachedWhateverRoom(s, c, room) == s # c /\ status[s] = "live"

\* socket.to(room).emit(...) reaches socket s when s is in the room and is
\* not the emitting socket c itself.
Reached(s, c, room) == s # c /\ room \in rooms[s]

\* An emit that waits for its readers: it writes to the sockets in the order
\* of their ids and goes no further than the first that has events pending.
EmitStalled(q, c, room, ev) ==
    [s \in Conn |-> IF /\ Reached(s, c, room)
                       /\ \A t \in Conn :
                             (Reached(t, c, room) /\ Rank(t) < Rank(s)) => Len(q[t]) <= 1
                    THEN Append(q[s], ev) ELSE q[s]]

\* An emit that puts the event at the head of the queue.
EmitPrepend(q, c, room, ev) ==
    [s \in Conn |-> IF Reached(s, c, room) THEN <<ev>> \o q[s] ELSE q[s]]

\* One socket.to(room).emit(ev) on the queues q: the event goes to the tail of
\* the queue of every socket reached.
Emit(q, c, room, ev) ==
    [s \in Conn |-> IF Reached(s, c, room) THEN Append(q[s], ev) ELSE q[s]]

\* A forEach body without its test: the sender's room is emitted to as well.
IsTargetAll(userId, md) == TRUE

\* The test of the forEach body: every user of the chat but the sender.
IsTarget(userId, md) == userId # md.sender

\* chat.users.forEach(user => { if (...) socket.to(user._id).emit(...) }):
\* the users in array order, one emit per entry that passes the test.
RECURSIVE FanOut(_, _, _, _, _)
FanOut(q, c, users, md, n) ==
    IF users = <<>> THEN q
    ELSE FanOut(IF IsTarget(Head(users), md)
                THEN Emit(q, c, Head(users), MessageEvent(c, md, n, Head(users)))
                ELSE q,
                c, Tail(users), md, n)

\* socket.on('new message', messageData)
NewMessage(c, md) ==
    /\ status[c] = "live"
    /\ nsent < MaxSends
    /\ nsent' = nsent + 1
    /\ queue' = FanOut(queue, c, md.users, md, nsent + 1)
    /\ UNCHANGED <<status, rooms, cvars, avars, uvars, tvars>>

\* A disconnect that takes the socket out of its personal rooms only.
RoomsAfterClosePartly(c) == [rooms EXCEPT ![c] = @ \ Users]

\* A disconnect that leaves the socket in its rooms.
RoomsAfterCloseKept(c) == rooms

\* The rooms of a socket that has disconnected: socket.io takes the socket
\* out of every room before the 'disconnect' handler (which only logs) runs.
RoomsAfterClose(c) == [rooms EXCEPT ![c] = {}]

\* socket.on('disconnect')
Disconnect(c) ==
    /\ status[c] = "live"
    /\ status' = [status EXCEPT ![c] = "closed"]
    /\ rooms' = RoomsAfterClose(c)
    /\ UNCHANGED <<queue, nsent, cvars, avars, uvars, tvars>>

Next ==
    \/ \E c \in Conn : Connection(c)
    \/ \E c \in Conn, u \in Users : Setup(c, u)
    \/ \E c \in Conn, r \in Chats : JoinChat(c, r)
    \/ \E c \in Conn, md \in MessageData : NewMessage(c, md)
    \/ \E c \in Conn : Disconnect(c)

Spec == Init /\ [][Next]_vars

\* ---------------------------------------------------------------- the client

\* The server driven by the repository's own client: every socket is the
\* socket of one SingleChat component, which sets up once when it mounts,
\* joins the chat it has open and sends messages of that chat as saved by
\* POST /api/message.

\* chat.users of each chat, as the saved message carries it after populate.
ChatUsersOf == [ch \in Chats |-> <<"u1", "u2">>]

\* The event names the client listens to for incoming messages: "message
\* recieved" on one side of the file, "new message" on the other.
MessageListenerNames == {"message recieved", "new message"}

\* useEffect(() => { socket = io(ENDPOINT); socket.emit("setup", user); ... }, [])
ClientSetup(c, u) ==
    /\ ~HasSetUp(c)
    /\ Setup(c, u)

\* useEffect(() => { fetchMessages(); selectedChatCompare = selectedChat }, [selectedChat])
SelectChat(c, chat) ==
    /\ status[c] = "live"
    /\ HasSetUp(c)
    /\ selectedChatCompare[c] # chat
    /\ selectedChatCompare' = [selectedChatCompare EXCEPT ![c] = chat]
    /\ UNCHANGED <<status, rooms, queue, nsent, seen, heard, avars, uvars, tvars>>

\* fetchMessages: once the messages are fetched, socket.emit("join chat",
\* selectedChat._id).
FetchMessages(c) ==
    /\ selectedChatCompare[c] # "none"
    /\ selectedChatCompare[c] \notin rooms[c]
    /\ JoinChat(c, selectedChatCompare[c])

\* sendMessage: the message is saved, then socket.emit("new message", data);
\* data is the saved message: its sender is the user, its chat the chat open.
sendMessage(c) ==
    /\ HasSetUp(c)
    /\ selectedChatCompare[c] # "none"
    /\ \E u \in rooms[c] \cap Users :
          NewMessage(c, [chat |-> selectedChatCompare[c],
                         users |-> ChatUsersOf[selectedChatCompare[c]],
                         sender |-> u])

\* The message listener of the client of c, run for event ev: the message is
\* appended to the list shown when its chat is the chat open, and is left for
\* a notification otherwise.
OnMessage(c, ev) ==
    Append(heard[c], [id |-> ev.id, shown |-> (selectedChatCompare[c] = ev.chat)])

\* The client of c dispatches the next event of its socket: the listeners
\* registered under the event's name run, and no other.  name is the name the
\* client's message listener is registered under.
Receive(c, name) ==
    /\ status[c] = "live"
    /\ seen[c] < Len(queue[c])
    /\ seen' = [seen EXCEPT ![c] = @ + 1]
    /\ heard' = [heard EXCEPT ![c] =
                    IF queue[c][seen[c] + 1].type = name
                    THEN OnMessage(c, queue[c][seen[c] + 1])
                    ELSE @]
    /\ UNCHANGED <<status, rooms, queue, nsent, selectedChatCompare, avars, uvars, tvars>>

ClientNext ==
    \/ \E c \in Conn : Connection(c)
    \/ \E c \in Conn, u \in Users : ClientSetup(c, u)
    \/ \E c \in Conn, chat \in Chats : SelectChat(c, chat)
    \/ \E c \in Conn : FetchMessages(c)
    \/ \E c \in Conn : sendMessage(c)
    \/ \E c \in Conn, name \in MessageListenerNames : Receive(c, name)
    \/ \E c \in Conn : Disconnect(c)

ClientSpec == Init /\ [][ClientNext]_vars

\* ---------------------------------------------------------------- accessChat

\* The one-on-one chats of users a and b in the collection: Chat.find with
\* isGroupChat false and an $elemMatch for each of the two.
FindChats(a, b) ==
    {i \in DOMAIN chatdb :
        /\ ~chatdb[i].isGroupChat
        /\ \E j \in DOMAIN chatdb[i].users : chatdb[i].users[j] = a
        /\ \E j \in DOMAIN chatdb[i].users : chatdb[i].users[j] = b}

\* POST /api/chat arrives: accessChat starts and sends its query.
AccessChat(r, me, other) ==
    /\ areq[r].pc = "idle"
    /\ areq' = [areq EXCEPT ![r] = [pc |-> "find", me |-> me, other |-> other]]
    /\ UNCHANGED <<status, rooms, queue, nsent, cvars, chatdb, uvars, tvars>>

\* await Chat.find(...) resolves: with a chat found the request answers with
\* it, with none it goes on to create one.
FindResolves(r) ==
    /\ areq[r].pc = "find"
    /\ areq' = [areq EXCEPT ![r].pc =
                   IF FindChats(areq[r].me, areq[r].other) # {} THEN "done" ELSE "create"]
    /\ UNCHANGED <<status, rooms, queue, nsent, cvars, chatdb, uvars, tvars>>

\* await Chat.create(chatData): the chat is inserted.
CreateResolves(r) ==
    /\ areq[r].pc = "create"
    /\ chatdb' = Append(chatdb, [isGroupChat |-> FALSE,
                                 users |-> <<areq[r].me, areq[r].other>>])
    /\ areq' = [areq EXCEPT ![r].pc = "populate"]
    /\ UNCHANGED <<status, rooms, queue, nsent, cvars, uvars, tvars>>

\* await Chat.findOne({_id: createdChat._id}) resolves: the answer is sent.
FindOneResolves(r) ==
    /\ areq[r].pc = "populate"
    /\ areq' = [areq EXCEPT ![r].pc = "done"]
    /\ UNCHANGED <<status, rooms, queue, nsent, cvars, chatdb, uvars, tvars>>

AccessNext ==
    \/ \E r \in Requests, me \in Users, other \in Users : AccessChat(r, me, other)
    \/ \E r \in Requests : FindResolves(r)
    \/ \E r \in Requests : CreateResolves(r)
    \/ \E r \in Requests : FindOneResolves(r)

AccessSpec == Init /\ [][AccessNext]_vars

\* ---------------------------------------------------------------- SingleChat

\* One SingleChat component, that of socket Me, under whatever its user does
\* and whatever arrives: HTTP answers, socket events under the names it
\* listens to, timers.  Each handler and each continuation of an await is one
\* action and ends with the render and the effects its state updates cause.

Me == "c1"

\* The two sides of SingleChat.js.
Builds == {"HEAD", "Coding11-12"}

\* The state of the server's socket handlers, which the component leaves alone.
svars == <<status, rooms, queue, nsent, seen, heard>>

\* The messages saved so far, all chats together.
RECURSIVE SavedIn(_)
SavedIn(S) ==
    IF S = {} THEN 0
    ELSE LET ch == CHOOSE x \in S : TRUE IN Len(db[ch]) + SavedIn(S \ {ch})
TotalSaved == SavedIn(ChatIds)

\* The saved message: its chat, its rank among the messages saved and whose
\* it is ("me" for the component's user, "other" for anybody else).
Msg(ch, n, by) == [chat |-> ch, id |-> n, by |-> by]

\* The listener effect after a render, l being the listeners before it, cmp
\* selectedChatCompare as the render read it and msgs the list rendered.
\* HEAD: the effect has no dependency list, so every render registers one more
\* listener, closed over the list of that render (they are counted up to
\* MaxListeners; snap is the list of the newest).  Coding11-12: the effect
\* depends on [selectedChatCompare] and registers one more listener whenever
\* that has changed since it last ran.  Neither has a cleanup.
AfterRender(l, cmp, msgs) ==
    IF build = "HEAD"
    THEN [n |-> IF l.n < MaxListeners THEN l.n + 1 ELSE l.n, snap |-> msgs, dep |-> l.dep]
    ELSE IF cmp # l.dep THEN [n |-> l.n + 1, snap |-> l.snap, dep |-> cmp] ELSE l

\* The component mounts: socket = io(ENDPOINT), socket.emit("setup", user), the
\* first listener is registered; no chat is selected yet.
Mount(b) ==
    /\ build = "none"
    /\ build' = b
    /\ emitted' = Append(emitted, [type |-> "setup", chat |-> "none", id |-> 0])
    /\ listeners' = [n |-> 1, snap |-> messages, dep |-> selectedChatCompare[Me]]
    /\ UNCHANGED <<svars, selectedChatCompare, avars, selectedChat, messages, loading,
                   fetches, posts, db, toasts, newMessage, tvars>>

\* setSelectedChat(chat) by the chat list or the back button ("none"): the
\* render, then the effect on [selectedChat]: fetchMessages() up to its await
\* (nothing without a chat; else setLoading(true) and the GET is sent), and
\* selectedChatCompare = selectedChat; then the render setLoading causes.
setSelectedChat(chat) ==
    /\ build # "none"
    /\ chat # selectedChat
    /\ build = "Coding11-12" => listeners.n < MaxListeners
    /\ selectedChat' = chat
    /\ selectedChatCompare' = [selectedChatCompare EXCEPT ![Me] = chat]
    /\ LET l1 == AfterRender(listeners, selectedChatCompare[Me], messages)
       IN IF chat = "none"
          THEN /\ listeners' = l1
               /\ UNCHANGED <<loading, fetches>>
          ELSE /\ loading' = TRUE
               /\ fetches' = fetches \cup {chat}
               /\ listeners' = IF loading THEN l1 ELSE AfterRender(l1, chat, messages)
    /\ UNCHANGED <<status, rooms, queue, nsent, seen, heard, avars, build, messages,
                   posts, db, emitted, toasts, newMessage, tvars>>

\* fetchMessages after its await, the GET for chat ch answered: setMessages(data),
\* setLoading(false), socket.emit("join chat", selectedChat._id), with the
\* selectedChat of the call.
fetchResolves(ch) ==
    /\ ch \in fetches
    /\ Len(emitted) < MaxEmitted
    /\ fetches' = fetches \ {ch}
    /\ messages' = db[ch]
    /\ loading' = FALSE
    /\ emitted' = Append(emitted, [type |-> "join chat", chat |-> ch, id |-> 0])
    /\ listeners' = AfterRender(listeners, selectedChatCompare[Me], db[ch])
    /\ UNCHANGED <<svars, selectedChatCompare, avars, build, selectedChat, posts, db,
                   toasts, newMessage, tvars>>

\* fetchMessages, the GET failed: the catch shows a toast and nothing else.
fetchRejects(ch) ==
    /\ ch \in fetches
    /\ toasts.send + toasts.load < MaxToasts
    /\ fetches' = fetches \ {ch}
    /\ toasts' = [toasts EXCEPT !.load = @ + 1]
    /\ UNCHANGED <<svars, selectedChatCompare, avars, build, selectedChat, messages,
                   loading, listeners, posts, db, emitted, newMessage, tvars>>

\* typingHandler, a keystroke in the input (shown only with a chat selected).
\* HEAD: setNewMessage; nothing more before 'connected'; else, when typing is
\* false, setTyping(true) and socket.emit("typing"); then a timer is set whose
\* callback keeps the typing and the selectedChat of this render.
\* Coding11-12: setNewMessage only.
typingHandler ==
    /\ build # "none"
    /\ selectedChat # "none"
    /\ newMessage' = TRUE
    /\ IF build = "HEAD" /\ socketConnected
       THEN /\ Len(timers) < MaxTimers
            /\ ~typing => Len(emitted) < MaxEmitted
            /\ typing' = TRUE
            /\ emitted' = IF typing THEN emitted
                          ELSE Append(emitted, [type |-> "typing", chat |-> selectedChat, id |-> 0])
            /\ timers' = Append(timers, [typing |-> typing, chat |-> selectedChat])
       ELSE UNCHANGED <<typing, emitted, timers>>
    /\ listeners' = AfterRender(listeners, selectedChatCompare[Me], messages)
    /\ UNCHANGED <<svars, selectedChatCompare, avars, build, selectedChat, messages,
                   loading, fetches, posts, db, toasts, socketConnected>>

\* A timer of typingHandler fires, 3 seconds after it was set: with the typing
\* of its render true, socket.emit("stop typing") and setTyping(false).
timerFires(i) ==
    /\ i \in DOMAIN timers
    /\ timers[i].typing => Len(emitted) < MaxEmitted
    /\ timers' = SubSeq(timers, 1, i - 1) \o SubSeq(timers, i + 1, Len(timers))
    /\ IF timers[i].typing
       THEN /\ emitted' = Append(emitted, [type |-> "stop typing", chat |-> timers[i].chat, id |-> 0])
            /\ typing' = FALSE
            /\ listeners' = IF typing THEN AfterRender(listeners, selectedChatCompare[Me], messages)
                            ELSE listeners
       ELSE UNCHANGED <<emitted, typing, listeners>>
    /\ UNCHANGED <<svars, selectedChatCompare, avars, build, selectedChat, messages,
                   loading, fetches, posts, db, toasts, newMessage, socketConnected>>

\* socket.on("connected", () => setSocketConnected(true))
connected ==
    /\ build # "none"
    /\ ~socketConnected
    /\ socketConnected' = TRUE
    /\ listeners' = AfterRender(listeners, selectedChatCompare[Me], messages)
    /\ UNCHANGED <<svars, selectedChatCompare, avars, build, selectedChat, messages,
                   loading, fetches, posts, db, emitted, toasts, newMessage, typing, timers>>

\* sendMessage up to its await, Enter with text in the input: HEAD emits
\* "stop typing"; setNewMessage(""); the POST is sent.  The continuation keeps
\* the message list of this render (snap).
onEnter ==
    /\ build # "none"
    /\ selectedChat # "none"
    /\ newMessage
    /\ TotalSaved + Cardinality(posts) < MaxMsgs
    /\ build = "HEAD" => Len(emitted) < MaxEmitted
    /\ emitted' = IF build = "HEAD"
                  THEN Append(emitted, [type |-> "stop typing", chat |-> selectedChat, id |-> 0])
                  ELSE emitted
    /\ newMessage' = FALSE
    /\ posts' = posts \cup {[chat |-> selectedChat, snap |-> messages]}
    /\ listeners' = AfterRender(listeners, selectedChatCompare[Me], messages)
    /\ UNCHANGED <<svars, selectedChatCompare, avars, build, selectedChat, messages,
                   loading, fetches, db, toasts, tvars>>

\* The server takes the POST of a build: HEAD sends {content, chatId};
\* Coding11-12 sends {content, chatID}, which the controller, reading chatId,
\* answers with 400.
PostAccepted == build = "HEAD"

\* A sendMessage whose catch does what its try does: emits and appends.
postRejectsLoud(p) ==
    /\ p \in posts
    /\ toasts.send + toasts.load < MaxToasts
    /\ Len(emitted) < MaxEmitted
    /\ posts' = posts \ {p}
    /\ toasts' = [toasts EXCEPT !.send = @ + 1]
    /\ emitted' = Append(emitted, [type |-> "new message", chat |-> p.chat, id |-> TotalSaved + 1])
    /\ messages' = Append(p.snap, Msg(p.chat, TotalSaved + 1, "me"))
    /\ listeners' = AfterRender(listeners, selectedChatCompare[Me], messages')
    /\ UNCHANGED <<svars, selectedChatCompare, avars, build, selectedChat, loading,
                   fetches, db, newMessage, tvars>>

\* sendMessage, the POST failed: the catch shows a toast and nothing else.
postRejects(p) ==
    /\ p \in posts
    /\ toasts.send + toasts.load < MaxToasts
    /\ posts' = posts \ {p}
    /\ toasts' = [toasts EXCEPT !.send = @ + 1]
    /\ UNCHANGED <<svars, selectedChatCompare, avars, build, selectedChat, messages,
                   loading, listeners, fetches, db, emitted, newMessage, tvars>>

\* sendMessage after its await, the message saved and sent back as data:
\* socket.emit("new message", data), setMessages([...messages, data]) with the
\* messages of the render the send started in.
postResolves(p) ==
    /\ p \in posts
    /\ PostAccepted
    /\ Len(emitted) < MaxEmitted
    /\ posts' = posts \ {p}
    /\ db' = [db EXCEPT ![p.chat] = Append(@, Msg(p.chat, TotalSaved + 1, "me"))]
    /\ emitted' = Append(emitted, [type |-> "new message", chat |-> p.chat, id |-> TotalSaved + 1])
    /\ messages' = Append(p.snap, Msg(p.chat, TotalSaved + 1, "me"))
    /\ listeners' = AfterRender(listeners, selectedChatCompare[Me], messages')
    /\ UNCHANGED <<svars, selectedChatCompare, avars, build, selectedChat, loading,
                   fetches, toasts, newMessage, tvars>>

\* A listener that appends whatever arrives.
ShownAlways(m) == TRUE

\* The test of the message listener: the else branch of
\* if (!selectedChatCompare || selectedChatCompare._id !== m.chat._id).
ShownHere(m) == selectedChatCompare[Me] # "none" /\ selectedChatCompare[Me] = m.chat

\* msgs with m appended k times.
RECURSIVE AppendTimes(_, _, _)
AppendTimes(msgs, m, k) == IF k = 0 THEN msgs ELSE AppendTimes(Append(msgs, m), m, k - 1)

\* The list after the listeners have run for message m, one after the other.
\* HEAD: each sets the list to the list of its own render with m appended, and
\* the newest comes last.  Coding11-12: each appends m to the list as it is
\* (prevMessages => [...prevMessages, m]).
Dispatch(m) ==
    IF ~ShownHere(m) THEN messages
    ELSE IF build = "HEAD" THEN Append(listeners.snap, m)
    ELSE AppendTimes(messages, m, listeners.n)

\* A message of somebody else for chat ch, saved, arrives under the name the
\* listeners are registered under.
messageArrives(ch) ==
    /\ build # "none"
    /\ TotalSaved < MaxMsgs
    /\ db' = [db EXCEPT ![ch] = Append(@, Msg(ch, TotalSaved + 1, "other"))]
    /\ messages' = Dispatch(Msg(ch, TotalSaved + 1, "other"))
    /\ listeners' = IF messages' # messages
                    THEN AfterRender(listeners, selectedChatCompare[Me], messages')
                    ELSE listeners
    /\ UNCHANGED <<svars, selectedChatCompare, avars, build, selectedChat, loading,
                   fetches, posts, emitted, toasts, newMessage, tvars>>

UiNext ==
    \/ \E b \in Builds : Mount(b)
    \/ \E chat \in ChatIds \cup {"none"} : setSelectedChat(chat)
    \/ \E ch \in ChatIds : fetchResolves(ch)
    \/ \E ch \in ChatIds : fetchRejects(ch)
    \/ typingHandler
    \/ onEnter
    \/ \E p \in posts : postResolves(p)
    \/ \E p \in posts : postRejects(p)
    \/ \E ch \in ChatIds : messageArrives(ch)

UiSpec == Init /\ [][UiNext]_vars

\* The typing indicator of the component: its keystrokes and timers, with the
\* answers to its HTTP requests still to come.
TypingNext ==
    \/ \E b \in Builds : Mount(b)
    \/ \E chat \in ChatIds \cup {"none"} : setSelectedChat(chat)
    \/ connected
    \/ typingHandler
    \/ \E i \in 1..MaxTimers : timerFires(i)
    \/ onEnter

TypingSpec == Init /\ [][TypingNext]_vars

\* ---------------------------------------------------------------- properties

\* The message events on the queue of c, as positions of the queue.
MsgAt(c) == {i \in DOMAIN queue[c] : queue[c][i].type = "message received"}

\* The copies of message n on the queue of c.
CopiesOf(c, n) == Cardinality({i \in MsgAt(c) : queue[c][i].id = n})

\* The identities of c: the personal rooms it is in.
Identities(c) == rooms[c] \cap Users

\* C1: a message event never lies on the queue of the socket that sent it
\* (socket.to(room) leaves the emitting socket out, member of the room or not).
C1_NoSelfDelivery ==
    \A c \in Conn : \A i \in MsgAt(c) : queue[c][i].from # c

\* C1's case: c set up as u, then received message 1, then sent message 2, and
\* message 2 was emitted to room u (it lies on the queue of d with room u):
\* c was a member of the room addressed and got nothing.
C1_Witness ==
    \E c \in Conn, d \in Conn, u \in Users :
        /\ c # d
        /\ Identities(c) = {u}
        /\ Len(queue[c]) = 2
        /\ queue[c][1].type = "connected"
        /\ queue[c][2].type = "message received" /\ queue[c][2].id = 1
        /\ \E i \in MsgAt(d) :
              queue[d][i].id = 2 /\ queue[d][i].from = c /\ queue[d][i].room = u

\* The entries of md.users that make the handler emit to a room b is in.
Hits(b, md) == {i \in DOMAIN md.users : md.users[i] # md.sender /\ md.users[i] \in rooms[b]}

\* Sockets a, b and c are three, live, set up and joined to room r.
AllJoined(a, b, c, r) ==
    /\ Cardinality({a, b, c}) = 3
    /\ \A x \in {a, b, c} : status[x] = "live" /\ HasSetUp(x) /\ r \in rooms[x]

NewAt(c) == (Len(queue[c]) + 1)..Len(queue'[c])

C5_MembersAreLive ==
    \A r \in RoomIds : membersOf(r) = {c \in Live : r \in rooms[c]}

\* C5's case: a socket that had set up, and so had joined a personal room, has
\* disconnected and is a member of no room.
C5_Witness ==
    \E c \in Conn :
        /\ status[c] = "closed"
        /\ HasSetUp(c)
        /\ \A r \in RoomIds : c \notin membersOf(r)

\* C6: no step places an event on the queue of a socket that has disconnected.
C6_NoDeliveryAfterDisconnect ==
    [][\A c \in Conn : status[c] = "closed" => queue'[c] = queue[c]]_vars

\* C6's case: c was in room u (it holds a message emitted to u), has
\* disconnected, and a later message of another socket was emitted to u: it
\* lies on the queue of d and not on that of c.
C6_Witness ==
    \E c \in Conn, d \in Conn, u \in Users :
        /\ status[c] = "closed"
        /\ \E i \in MsgAt(c) : queue[c][i].room = u /\ queue[c][i].id = 1
        /\ CopiesOf(c, 2) = 0
        /\ \E j \in MsgAt(d) :
              queue[d][j].room = u /\ queue[d][j].id = 2 /\ queue[d][j].from # c

\* C7 as claimed: 'join chat' and 'new message' from a socket that has not set
\* up change no room set and no queue.
C7_UnauthenticatedRejected ==
    [][\A c \in Conn :
          ~HasSetUp(c)
          => /\ \A r \in Chats : JoinChat(c, r) => rooms' = rooms
             /\ \A md \in MessageData : NewMessage(c, md) => queue' = queue
      ]_vars

\* C8 as claimed: a message of chat r from a socket that has set up and has not
\* joined room r lands on no queue.  The message is the socket's own: its
\* sender is an identity of the socket.
C8_SendRequiresJoined ==
    [][nsent' = nsent + 1 =>
       \A c \in Live, md \in MessageData :
          ( /\ HasSetUp(c)
            /\ md.chat \notin rooms[c]
            /\ md.sender \in Identities(c)
            /\ NewMessage(c, md) )
          => queue' = queue
      ]_vars

\* C11 as claimed: once a socket has an identity, no later 'setup' changes it:
\* while the socket is live its personal rooms stay what the first 'setup'
\* made them.
C11_IdentityNeverChanges ==
    [][\A c \in Conn :
          (Identities(c) # {} /\ status'[c] = "live")
          => Identities(c)' = Identities(c)
      ]_vars

\* The sockets that got, in this step, a copy of the event ev.
GotNow(ev) == {d \in Conn : \E j \in NewAt(d) : queue'[d][j] = ev}

C17_MembershipIsParity ==
    \A c \in Live, u \in Users :
        Identities(c) \subseteq {u}
        => ((u \in rooms[c]) <=> (SetupCount(c) % 2 = 1))

\* C17 as amended: a live socket is in a room exactly when it has joined it at
\* least once, however often (the server has no leave).
C17_MemberAfterAnyJoin ==
    \A c \in Live, u \in Users :
        Identities(c) \subseteq {u}
        => ((u \in rooms[c]) <=> (SetupCount(c) >= 1))

\* C17's case: a live socket has joined the personal room u twice and is in it.
C17_Witness ==
    \E c \in Live, u \in Users :
        SetupCount(c) = 2 /\ rooms[c] = {u}

C20_ListenerFires ==
    \A c \in Live : \A i \in 1..seen[c] :
        queue[c][i].type = "message received"
        => \E j \in DOMAIN heard[c] : heard[c][j].id = queue[c][i].id

\* Sockets c and d are two live sockets of the one identity u, both in the
\* chat's room r.
TwoDevices(c, d, u, r) ==
    /\ c # d
    /\ status[c] = "live" /\ status[d] = "live"
    /\ Identities(c) = {u} /\ Identities(d) = {u}
    /\ r \in rooms[c] /\ r \in rooms[d]

C22_NoDuplicateChat ==
    \A a \in Users, b \in Users :
        a # b => Cardinality({i \in FindChats(a, b) : Len(chatdb[i].users) = 2}) <= 1

\* The messages on the list shown.
Shown == {messages[i] : i \in DOMAIN messages}

\* C21: a message that arrives changes the list only when its chat is the
\* chat selected: then the list is the list before with the message at its
\* end; a message of another chat, or one that arrives with no chat selected,
\* leaves the list as it was.
C21_AppendsOnlyForSelectedChat ==
    [][\A ch \in ChatIds :
          messageArrives(ch)
          => IF selectedChat = ch
             THEN /\ Len(messages') > Len(messages)
                  /\ SubSeq(messages', 1, Len(messages)) = messages
                  /\ \A k \in (Len(messages) + 1)..Len(messages') :
                        messages'[k] = Msg(ch, TotalSaved + 1, "other")
             ELSE messages' = messages
      ]_vars

\* C21's case: with chatA selected, message 1 arrived for chatA and is on the
\* list, message 2 arrived for chatB and is not.
C21_Witness ==
    /\ selectedChat = "chatA"
    /\ db["chatB"] = <<Msg("chatB", 2, "other")>>
    /\ Shown = {Msg("chatA", 1, "other")}

\* C25: the client emits 'new message' for saved messages only, and the step
\* in which a POST fails (its toast is shown) emits nothing and leaves the
\* list as it was.
C25_PersistBeforeFanOut ==
    /\ [](\A i \in DOMAIN emitted :
             emitted[i].type = "new message"
             => \E k \in DOMAIN db[emitted[i].chat] :
                   db[emitted[i].chat][k] = Msg(emitted[i].chat, emitted[i].id, "me"))
    /\ [][toasts'.send = toasts.send + 1
          => messages' = messages /\ emitted' = emitted /\ db' = db
         ]_vars

\* C25's case: in the build whose POST can succeed, a send has failed: its
\* toast is shown, no 'new message' has been emitted, nothing is saved and the
\* list is empty.
C25_Witness ==
    /\ build = "HEAD"
    /\ toasts.send = 1
    /\ posts = {}
    /\ \A i \in DOMAIN emitted : emitted[i].type # "new message"
    /\ TotalSaved = 0
    /\ messages = <<>>

\* C27 as claimed: no message is on the list twice.
C27_AppendedOnce ==
    \A i \in DOMAIN messages, j \in DOMAIN messages :
        i < j => messages[i] # messages[j]

\* C28 as claimed: when a send of the selected chat completes, the messages of
\* others for that chat that were on the list are still on it, and so is the
\* message sent.
C28_NoLostUpdate ==
    [][\A p \in posts :
          (p.chat = selectedChat /\ postResolves(p))
          => /\ \A i \in DOMAIN messages :
                   (messages[i].by = "other" /\ messages[i].chat = selectedChat)
                   => \E j \in DOMAIN messages' : messages'[j] = messages[i]
             /\ \E j \in DOMAIN messages' : messages'[j] = Msg(p.chat, TotalSaved + 1, "me")
      ]_vars

\* C29 as claimed: with a chat selected, once every fetch has been answered
\* (none has failed, and no send has completed), loading is false and the
\* list holds messages of the selected chat only.
C29_ListOfSelectedChat ==
    ( /\ selectedChat # "none"
      /\ fetches = {}
      /\ toasts.load = 0
      /\ \A i \in DOMAIN emitted : emitted[i].type # "new message" )
    => /\ ~loading
       /\ \A i \in DOMAIN messages : messages[i].chat = selectedChat

\* C30 as claimed, in the part a finite run decides: once every timer has
\* fired, the typing flag is false and every 'typing' the client has emitted
\* is followed by a 'stop typing' for the same chat.
C30_TypingEnds ==
    timers = <<>>
    => /\ (\E i \in DOMAIN emitted : emitted[i].type = "typing") => ~typing
       /\ \A i \in DOMAIN emitted :
             emitted[i].type = "typing"
             => \E j \in DOMAIN emitted :
                   j > i /\ emitted[j].type = "stop typing" /\ emitted[j].chat = emitted[i].chat
====
